---- MODULE Spec2Model ----
(***************************************************************************)
(* A model of the appointment optimizer's diagnostic interview:            *)
(* InterviewManager (interview_manager.py) driving the decision-service    *)
(* client InfermedicaClient (infermedica_client.py).                       *)
(*                                                                         *)
(* Further specifications: ProtocolSpec, the interview driven in protocol  *)
(* order; ScoreSpec, the scoring of one slot by AppointmentMatcher         *)
(* (appointment_matcher.py); RankSpec, the ranking of a list of slots;     *)
(* OptSpec, the pipeline of AppointmentOptimizer                           *)
(* (appointment_optimizer.py); AppSpec, the interview page (app_full.py).  *)
(*                                                                         *)
(* One session is modelled.  Every public method of InterviewManager is    *)
(* one action; the HTTP exchange a method performs is an input of the      *)
(* action (the response the service gives, or a transport failure).        *)
(* The variables op, args, ret, raised, called and wire record what the    *)
(* last call was, what it returned or raised, which endpoint it contacted, *)
(* and what the service answered, so that the contract of a single call   *)
(* can be stated over states and steps.                                    *)
(* The timestamp of a history record (the wall clock) is left out.         *)
(***************************************************************************)
EXTENDS Integers, Sequences, FiniteSets, TLC

VARIABLES
    stage,                    \* InterviewState.stage
    evidence,                 \* InterviewState.evidence
    history,                  \* InterviewState.history
    conditions,               \* InterviewState.conditions
    is_complete,              \* InterviewState.is_complete
    questions_asked,          \* InterviewState.questions_asked
    current_question,         \* InterviewState.current_question
    pending_risk_factors,     \* InterviewManager.pending_risk_factors
    pending_related_symptoms, \* InterviewManager.pending_related_symptoms
    pending_red_flags,        \* InterviewManager.pending_red_flags
    op,                       \* the method called last
    args,                     \* the arguments it was called with
    ret,                      \* what it returned
    raised,                   \* the exception it raised, or NoError
    called,                   \* the endpoint it contacted, or NoCall
    wire,                     \* the service's answer to that request
    now,                      \* datetime.now(), in ticks
    triage,                   \* the TriageResult given to the matcher
    slot,                     \* the AppointmentSlot being scored
    score,                    \* the AppointmentScore computed, or None
    scored,                   \* the slots match_appointments scored
    calls,                    \* the steps the last optimize invoked
    session                   \* st.session_state of app_full, or None

state_vars == <<stage, evidence, history, conditions, is_complete,
                questions_asked, current_question>>
pending_vars == <<pending_risk_factors, pending_related_symptoms,
                  pending_red_flags>>
call_vars == <<op, args, ret, raised, called, wire>>
matcher_vars == <<now, triage, slot, score>>
ranking_vars == <<scored>>
optimizer_vars == <<calls>>
app_vars == <<session>>
vars == <<state_vars, pending_vars, call_vars, matcher_vars, ranking_vars,
          optimizer_vars, app_vars>>

----------------------------------------------------------------------------
(* Bounds of the model *)

\* longest evidence ledger explored
MaxEvidence == 2
\* most responses (to suggested items and to diagnosis questions) recorded
MaxAnswers == 1
\* largest value of questions_asked explored
MaxQuestions == 1

----------------------------------------------------------------------------
(* InterviewStage *)

NOT_STARTED == "not_started"
INITIAL_SYMPTOMS == "initial_symptoms"
RISK_FACTORS == "risk_factors"
RELATED_SYMPTOMS == "related_symptoms"
RED_FLAGS == "red_flags"
INTERVIEW_LOOP == "interview_loop"
COMPLETE == "complete"

InterviewStage == <<NOT_STARTED, INITIAL_SYMPTOMS, RISK_FACTORS,
                    RELATED_SYMPTOMS, RED_FLAGS, INTERVIEW_LOOP, COMPLETE>>

----------------------------------------------------------------------------
(* Python values *)

\* the None of an Optional object
None == [none |-> TRUE]
\* the None of an Optional string
NoneStr == "None"
\* dict.get(k, default)
Get(d, k, default) == IF k \in DOMAIN d THEN d[k] ELSE default

NoError == "none"
RequestException == "RequestException"
NoCall == "none"
NoWire == [status |-> "none"]

ReturnNone == [kind |-> "None"]
ReturnList(l) == [kind |-> "list", value |-> l]
ReturnQuestion(q) == [kind |-> "question", value |-> q]
ReturnDict(d) == [kind |-> "dict", value |-> d]

\* the choice_id values of an evidence item
Choices == {"present", "absent", "unknown"}
\* the responses the callers of this model pass
Responses == {"present", "absent"}

----------------------------------------------------------------------------
(* What the decision service can answer *)

\* mentions of a /parse response
Mention1 == [id |-> "s_1", name |-> "Chest pain", common_name |-> "Chest pain"]
Mention2 == [id |-> "s_2", name |-> "Dyspnea"]
MentionLists == {<<>>, <<Mention1>>, <<Mention2, Mention1>>}

\* items of a /suggest response
Suggest1 == [id |-> "p_8", name |-> "Smoking"]
Suggest2 == [id |-> "s_2"]
SuggestResponses ==
    { [status |-> "error"],
      [status |-> "ok", is_list |-> TRUE, data |-> <<Suggest1, Suggest2>>],
      [status |-> "ok", is_list |-> FALSE, data |-> [message |-> <<>>]] }

\* bodies of a /diagnosis response
Condition1 == [id |-> "c_1", common_name |-> "Angina", probability |-> 80]
Question1 == [type |-> "single", text |-> <<"Is breathing difficult?">>,
              items |-> <<[id |-> "s_2", name |-> "Dyspnea"]>>]
DiagnosisResponses ==
    { [status |-> "error"],
      [status |-> "ok", data |-> [question |-> Question1,
                                  conditions |-> <<Condition1>>]],
      [status |-> "ok", data |-> [should_stop |-> FALSE, conditions |-> <<>>]],
      [status |-> "ok", data |-> [should_stop |-> TRUE, question |-> Question1,
                                  conditions |-> <<Condition1>>]] }

\* the ids a caller answers about
ItemIds == {"s_2"}

----------------------------------------------------------------------------
(* InfermedicaClient: each method maps the HTTP outcome to what the method *)
(* returns (value) or raises (raised).                                     *)

Returned(v) == [raised |-> NoError, value |-> v]
Raised(e) == [raised |-> e, value |-> None]

\* a ParsedSymptom whose choice_id is read from the mention, which has none
ParsedSymptom_unset(mention) ==
    [id |-> mention.id, name |-> mention.name,
     common_name |-> Get(mention, "common_name", mention.name),
     choice_id |-> Get(mention, "choice_id", NoneStr)]

ParsedSymptom(mention) ==
    [id |-> mention.id, name |-> mention.name,
     common_name |-> Get(mention, "common_name", mention.name),
     choice_id |-> "present"]

parse_symptoms(mentions) ==
    [i \in 1..Len(mentions) |-> ParsedSymptom(mentions[i])]

suggest_risk_factors(resp) ==
    IF resp.status = "ok"
    THEN Returned(IF resp.is_list THEN resp.data
                  ELSE Get(resp.data, "key", <<>>))
    ELSE Returned(<<>>)

suggest_related_symptoms(resp) ==
    IF resp.status = "ok"
    THEN Returned(IF resp.is_list THEN resp.data
                  ELSE Get(resp.data, "key", <<>>))
    ELSE Returned(<<>>)

\* suggest_red_flags without its except clause: the failure propagates
suggest_red_flags_propagating(resp) ==
    IF resp.status = "ok"
    THEN Returned(IF resp.is_list THEN resp.data
                  ELSE Get(resp.data, "key", <<>>))
    ELSE Raised(RequestException)

suggest_red_flags(resp) ==
    IF resp.status = "ok"
    THEN Returned(IF resp.is_list THEN resp.data
                  ELSE Get(resp.data, "key", <<>>))
    ELSE Returned(<<>>)

DiagnosisQuestion(q) ==
    [question_type |-> q.type, question_text |-> q.text,
     items |-> Get(q, "items", <<>>), question_id |-> Get(q, "id", NoneStr)]

\* a result that never carries the stop signal
DiagnosisResult_unstopped(question, should_stop, conds) ==
    [question |-> question, should_stop |-> FALSE, conditions |-> conds]

DiagnosisResult(question, should_stop, conds) ==
    [question |-> question, should_stop |-> should_stop, conditions |-> conds]

diagnosis(resp) ==
    IF resp.status = "ok"
    THEN LET data == resp.data
             should_stop == Get(data, "should_stop", FALSE)
             question == IF ~should_stop /\ "question" \in DOMAIN data
                         THEN DiagnosisQuestion(data.question)
                         ELSE None
         IN  Returned(DiagnosisResult(question, should_stop,
                                      Get(data, "conditions", <<>>)))
    ELSE Returned(DiagnosisResult(None, TRUE, <<>>))

----------------------------------------------------------------------------
(* InterviewManager *)

InterviewHistory(stg, text, type, item_id, item_name, response) ==
    [stage |-> stg, question_text |-> text, question_type |-> type,
     item_id |-> item_id, item_name |-> item_name, response |-> response]

\* an evidence item that records every finding as present
EvidenceItem_present(id, choice_id, source) ==
    [id |-> id, choice_id |-> "present", source |-> source]

EvidenceItem(id, choice_id, source) ==
    [id |-> id, choice_id |-> choice_id, source |-> source]

\* the name of the first item of items with this id, or default
RECURSIVE ItemName(_, _, _)
ItemName(items, id, default) ==
    IF items = <<>> THEN default
    ELSE IF Get(Head(items), "id", NoneStr) = id
         THEN Get(Head(items), "name", default)
         ELSE ItemName(Tail(items), id, default)

\* the responses recorded in a ledger (every item but the initial symptoms)
AnswerCount(ev) ==
    Cardinality({i \in DOMAIN ev : ev[i].source # "initial"})

\* the model explores a response only while the ledger is within the bounds
CanAnswer == Len(evidence) < MaxEvidence /\ AnswerCount(evidence) < MaxAnswers

\* an initial symptom recorded with the source of the suggested items
InitialEvidence_suggest(symptom) ==
    EvidenceItem(symptom.id, symptom.choice_id, "suggest")

\* the evidence item start_interview records for one initial symptom
InitialEvidence(symptom) ==
    EvidenceItem(symptom.id, symptom.choice_id, "initial")

\* collect_risk_factors open again once the risk factors are collected
CanCollectRiskFactors_again(stg) == stg \in {INITIAL_SYMPTOMS, RISK_FACTORS}

\* collect_related_symptoms open to every started session
CanCollectRelatedSymptoms_started(stg) == stg # NOT_STARTED

\* the stage tests that open the three collecting methods
CanCollectRiskFactors(stg) == stg = INITIAL_SYMPTOMS
CanCollectRelatedSymptoms(stg) == stg = RISK_FACTORS
CanCheckRedFlags(stg) == stg = RELATED_SYMPTOMS

\* the interview loop entered from the related symptoms as well
LoopStage_early(stg) ==
    IF stg \in {RELATED_SYMPTOMS, RED_FLAGS} THEN INTERVIEW_LOOP ELSE stg

\* the stage after the first statement of get_next_question
LoopStage(stg) == IF stg = RED_FLAGS THEN INTERVIEW_LOOP ELSE stg

\* get_final_results opened by the stage instead of the completion flag
ResultsReady_stage == stage = COMPLETE

\* the test that opens get_final_results
ResultsReady == is_complete

InterviewInit ==
    /\ stage = NOT_STARTED
    /\ evidence = <<>>
    /\ history = <<>>
    /\ conditions = <<>>
    /\ is_complete = FALSE
    /\ questions_asked = 0
    /\ current_question = None
    /\ pending_risk_factors = <<>>
    /\ pending_related_symptoms = <<>>
    /\ pending_red_flags = <<>>
    /\ op = "__init__"
    /\ args = <<>>
    /\ ret = ReturnNone
    /\ raised = NoError
    /\ called = NoCall
    /\ wire = NoWire

\* no appointment is being scored
MatcherIdle ==
    /\ now = 0
    /\ triage = None
    /\ slot = None
    /\ score = None

\* no list of slots was ranked
RankingIdle == scored = <<>>

\* no request was optimized
OptimizerIdle == calls = <<>>

\* no page of app_full is open
AppIdle == session = None

Init ==
    InterviewInit /\ MatcherIdle /\ RankingIdle /\ OptimizerIdle /\ AppIdle

\* a list rebuilt from the new items instead of extended
Extend_rebuilt(list, items) == items

\* list.append of each of items, in order
Extend(list, items) == list \o items

start_interview ==
    /\ UNCHANGED <<matcher_vars, ranking_vars, optimizer_vars, app_vars>>
    /\ \E mentions \in MentionLists :
           LET initial_symptoms == parse_symptoms(mentions)
               n == Len(initial_symptoms)
           IN  /\ Len(evidence) + n <= MaxEvidence
               /\ stage' = INITIAL_SYMPTOMS
               /\ evidence' = Extend(evidence,
                      [i \in 1..n |-> InitialEvidence(initial_symptoms[i])])
               /\ history' = Extend(history,
                      [i \in 1..n |-> InterviewHistory(INITIAL_SYMPTOMS,
                                          <<"Initial symptoms">>, "initial",
                                          initial_symptoms[i].id,
                                          initial_symptoms[i].name,
                                          initial_symptoms[i].choice_id)])
               /\ UNCHANGED <<conditions, is_complete, questions_asked,
                              current_question, pending_vars>>
               /\ op' = "start_interview"
               /\ args' = [initial_symptoms |-> initial_symptoms]
               /\ ret' = ReturnNone
               /\ raised' = NoError
               /\ called' = NoCall
               /\ wire' = NoWire

collect_risk_factors ==
    /\ UNCHANGED <<matcher_vars, ranking_vars, optimizer_vars, app_vars>>
    /\ IF ~CanCollectRiskFactors(stage)
       THEN /\ UNCHANGED <<state_vars, pending_vars>>
            /\ op' = "collect_risk_factors"
            /\ args' = <<>>
            /\ ret' = ReturnList(<<>>)
            /\ raised' = NoError
            /\ called' = NoCall
            /\ wire' = NoWire
       ELSE \E resp \in SuggestResponses :
                LET risk_factors == suggest_risk_factors(resp)
                IN  /\ op' = "collect_risk_factors"
                    /\ args' = <<>>
                    /\ called' = "suggest:demographic_risk_factors"
                    /\ wire' = resp
                    /\ raised' = risk_factors.raised
                    /\ IF risk_factors.raised # NoError
                       THEN /\ UNCHANGED <<state_vars, pending_vars>>
                            /\ ret' = ReturnNone
                       ELSE /\ pending_risk_factors' = risk_factors.value
                            /\ stage' = RISK_FACTORS
                            /\ ret' = ReturnList(risk_factors.value)
                            /\ UNCHANGED <<evidence, history, conditions,
                                           is_complete, questions_asked,
                                           current_question,
                                           pending_related_symptoms,
                                           pending_red_flags>>

add_risk_factor_response ==
    /\ UNCHANGED <<matcher_vars, ranking_vars, optimizer_vars, app_vars>>
    /\ \E risk_factor_id \in ItemIds, response \in Responses :
           LET rf_name == ItemName(pending_risk_factors, risk_factor_id,
                                   "Risk factor")
           IN  /\ CanAnswer
               /\ evidence' = Append(evidence,
                      EvidenceItem(risk_factor_id, response, "suggest"))
               /\ history' = Append(history,
                      InterviewHistory(RISK_FACTORS,
                          <<"Do you have ", rf_name, "?">>, "risk_factor",
                          risk_factor_id, rf_name, response))
               /\ UNCHANGED <<stage, conditions, is_complete, questions_asked,
                              current_question, pending_vars>>
               /\ op' = "add_risk_factor_response"
               /\ args' = [risk_factor_id |-> risk_factor_id, response |-> response]
               /\ ret' = ReturnNone
               /\ raised' = NoError
               /\ called' = NoCall
               /\ wire' = NoWire

collect_related_symptoms ==
    /\ UNCHANGED <<matcher_vars, ranking_vars, optimizer_vars, app_vars>>
    /\ IF ~CanCollectRelatedSymptoms(stage)
       THEN /\ UNCHANGED <<state_vars, pending_vars>>
            /\ op' = "collect_related_symptoms"
            /\ args' = <<>>
            /\ ret' = ReturnList(<<>>)
            /\ raised' = NoError
            /\ called' = NoCall
            /\ wire' = NoWire
       ELSE \E resp \in SuggestResponses :
                LET related == suggest_related_symptoms(resp)
                IN  /\ op' = "collect_related_symptoms"
                    /\ args' = <<>>
                    /\ called' = "suggest:symptoms"
                    /\ wire' = resp
                    /\ raised' = related.raised
                    /\ IF related.raised # NoError
                       THEN /\ UNCHANGED <<state_vars, pending_vars>>
                            /\ ret' = ReturnNone
                       ELSE /\ pending_related_symptoms' = related.value
                            /\ stage' = RELATED_SYMPTOMS
                            /\ ret' = ReturnList(related.value)
                            /\ UNCHANGED <<evidence, history, conditions,
                                           is_complete, questions_asked,
                                           current_question,
                                           pending_risk_factors,
                                           pending_red_flags>>

add_related_symptom_response ==
    /\ UNCHANGED <<matcher_vars, ranking_vars, optimizer_vars, app_vars>>
    /\ \E symptom_id \in ItemIds, response \in Responses :
           LET sym_name == ItemName(pending_related_symptoms, symptom_id,
                                    "Symptom")
           IN  /\ CanAnswer
               /\ evidence' = Append(evidence,
                      EvidenceItem(symptom_id, response, "suggest"))
               /\ history' = Append(history,
                      InterviewHistory(RELATED_SYMPTOMS,
                          <<"Do you have ", sym_name, "?">>, "related_symptom",
                          symptom_id, sym_name, response))
               /\ UNCHANGED <<stage, conditions, is_complete, questions_asked,
                              current_question, pending_vars>>
               /\ op' = "add_related_symptom_response"
               /\ args' = [symptom_id |-> symptom_id, response |-> response]
               /\ ret' = ReturnNone
               /\ raised' = NoError
               /\ called' = NoCall
               /\ wire' = NoWire

check_red_flags ==
    /\ UNCHANGED <<matcher_vars, ranking_vars, optimizer_vars, app_vars>>
    /\ IF ~CanCheckRedFlags(stage)
       THEN /\ UNCHANGED <<state_vars, pending_vars>>
            /\ op' = "check_red_flags"
            /\ args' = <<>>
            /\ ret' = ReturnList(<<>>)
            /\ raised' = NoError
            /\ called' = NoCall
            /\ wire' = NoWire
       ELSE \E resp \in SuggestResponses :
                LET red_flags == suggest_red_flags(resp)
                IN  /\ op' = "check_red_flags"
                    /\ args' = <<>>
                    /\ called' = "suggest:red_flags"
                    /\ wire' = resp
                    /\ raised' = red_flags.raised
                    /\ IF red_flags.raised # NoError
                       THEN /\ UNCHANGED <<state_vars, pending_vars>>
                            /\ ret' = ReturnNone
                       ELSE /\ pending_red_flags' = red_flags.value
                            /\ stage' = RED_FLAGS
                            /\ ret' = ReturnList(red_flags.value)
                            /\ UNCHANGED <<evidence, history, conditions,
                                           is_complete, questions_asked,
                                           current_question,
                                           pending_risk_factors,
                                           pending_related_symptoms>>

add_red_flag_response ==
    /\ UNCHANGED <<matcher_vars, ranking_vars, optimizer_vars, app_vars>>
    /\ \E red_flag_id \in ItemIds, response \in Responses :
           LET rf_name == ItemName(pending_red_flags, red_flag_id,
                                   "Red flag symptom")
           IN  /\ CanAnswer
               /\ evidence' = Append(evidence,
                      EvidenceItem(red_flag_id, response, "suggest"))
               /\ history' = Append(history,
                      InterviewHistory(RED_FLAGS,
                          <<"Do you have ", rf_name, "?">>, "red_flag",
                          red_flag_id, rf_name, response))
               /\ UNCHANGED <<stage, conditions, is_complete, questions_asked,
                              current_question, pending_vars>>
               /\ op' = "add_red_flag_response"
               /\ args' = [red_flag_id |-> red_flag_id, response |-> response]
               /\ ret' = ReturnNone
               /\ raised' = NoError
               /\ called' = NoCall
               /\ wire' = NoWire

get_next_question ==
    /\ UNCHANGED <<matcher_vars, ranking_vars, optimizer_vars, app_vars>>
    /\ IF LoopStage(stage) # INTERVIEW_LOOP
       THEN /\ UNCHANGED <<state_vars, pending_vars>>
            /\ op' = "get_next_question"
            /\ args' = <<>>
            /\ ret' = ReturnNone
            /\ raised' = NoError
            /\ called' = NoCall
            /\ wire' = NoWire
       ELSE \E resp \in DiagnosisResponses :
                LET result == diagnosis(resp)
                IN  /\ op' = "get_next_question"
                    /\ args' = <<>>
                    /\ called' = "diagnosis"
                    /\ wire' = resp
                    /\ raised' = result.raised
                    /\ UNCHANGED <<evidence, history, pending_vars>>
                    /\ IF result.raised # NoError
                       THEN /\ stage' = LoopStage(stage)
                            /\ ret' = ReturnNone
                            /\ UNCHANGED <<conditions, is_complete,
                                           questions_asked, current_question>>
                       ELSE /\ conditions' = result.value.conditions
                            /\ IF result.value.should_stop
                               THEN /\ is_complete' = TRUE
                                    /\ stage' = COMPLETE
                                    /\ current_question' = None
                                    /\ ret' = ReturnNone
                                    /\ UNCHANGED questions_asked
                               ELSE /\ questions_asked < MaxQuestions
                                    /\ stage' = LoopStage(stage)
                                    /\ current_question' = result.value.question
                                    /\ questions_asked' = questions_asked + 1
                                    /\ ret' = IF result.value.question = None
                                              THEN ReturnNone
                                              ELSE ReturnQuestion(
                                                       result.value.question)
                                    /\ UNCHANGED is_complete

answer_question ==
    /\ UNCHANGED <<matcher_vars, ranking_vars, optimizer_vars, app_vars>>
    /\ \E item_id \in ItemIds, response \in Responses :
           IF current_question = None
           THEN /\ UNCHANGED <<state_vars, pending_vars>>
                /\ op' = "answer_question"
                /\ args' = [item_id |-> item_id, response |-> response]
                /\ ret' = ReturnNone
                /\ raised' = NoError
                /\ called' = NoCall
                /\ wire' = NoWire
           ELSE LET item_name == ItemName(current_question.items, item_id,
                                          "Symptom")
                IN  /\ CanAnswer
                    /\ evidence' = Append(evidence,
                           EvidenceItem(item_id, response, "predefined"))
                    /\ history' = Append(history,
                           InterviewHistory(INTERVIEW_LOOP,
                               current_question.question_text,
                               current_question.question_type,
                               item_id, item_name, response))
                    /\ UNCHANGED <<stage, conditions, is_complete,
                                   questions_asked, current_question,
                                   pending_vars>>
                    /\ op' = "answer_question"
                    /\ args' = [item_id |-> item_id, response |-> response]
                    /\ ret' = ReturnNone
                    /\ raised' = NoError
                    /\ called' = NoCall
                    /\ wire' = NoWire

\* one entry of the history list of get_final_results
HistoryDict(h) ==
    [stage |-> h.stage, question |-> h.question_text, item |-> h.item_name,
     response |-> h.response]

get_final_results ==
    /\ UNCHANGED <<matcher_vars, ranking_vars, optimizer_vars, app_vars>>
    /\ UNCHANGED <<state_vars, pending_vars>>
    /\ op' = "get_final_results"
    /\ args' = <<>>
    /\ ret' = IF ~ResultsReady
              THEN ReturnDict([error |-> "Interview not complete",
                               stage |-> stage])
              ELSE ReturnDict([conditions |-> conditions,
                               evidence |-> evidence,
                               questions_asked |-> questions_asked,
                               history |-> [i \in 1..Len(history) |->
                                               HistoryDict(history[i])]])
    /\ raised' = NoError
    /\ called' = NoCall
    /\ wire' = NoWire

Next ==
    \/ start_interview
    \/ collect_risk_factors
    \/ add_risk_factor_response
    \/ collect_related_symptoms
    \/ add_related_symptom_response
    \/ check_red_flags
    \/ add_red_flag_response
    \/ get_next_question
    \/ answer_question
    \/ get_final_results

Spec == Init /\ [][Next]_vars

----------------------------------------------------------------------------
(* A session driven in protocol order, as the example of the module does:  *)
(* start_interview, the three collecting methods, then get_next_question   *)
(* and answer_question in turn until the interview is complete.  The       *)
(* caller's place in the protocol is read from the last call.  The initial *)
(* symptoms leave room in the ledger for an answer to every question, and  *)
(* the service sends a question with every response that is not a stop:    *)
(* the bound on questions_asked then makes it stop.                        *)

ProtocolNext ==
    \/ /\ op = "__init__"
       /\ start_interview
       /\ Len(evidence') + MaxQuestions <= MaxEvidence
    \/ /\ op = "start_interview"
       /\ collect_risk_factors
    \/ /\ op = "collect_risk_factors"
       /\ collect_related_symptoms
    \/ /\ op = "collect_related_symptoms"
       /\ check_red_flags
    \/ /\ \/ op \in {"check_red_flags", "answer_question"}
          \/ op = "get_next_question" /\ ret = ReturnNone
       /\ ~is_complete
       /\ get_next_question
       /\ (wire'.status = "ok" /\ ~Get(wire'.data, "should_stop", FALSE))
              => "question" \in DOMAIN wire'.data
    \/ /\ op = "get_next_question"
       /\ ret # ReturnNone
       /\ ~is_complete
       /\ answer_question

ProtocolSpec == Init /\ [][ProtocolNext]_vars /\ WF_vars(ProtocolNext)

----------------------------------------------------------------------------
(* AppointmentMatcher: the scoring of one slot.                            *)
(* Instants are integers counting ticks of half an hour; scores are        *)
(* integers counting tenths and the weighted total counts hundredths.      *)
(* The reasoning text of an AppointmentScore is left out.                  *)

\* the slot starts at most this many days before now
PastDays == 2
\* the slot starts at most this many days after now
MaxDays == 31
\* the latest instant at which the scoring runs
MaxNow == 0

TicksPerHour == 2
HoursPerDay == 24
TicksPerDay == HoursPerDay * TicksPerHour

EMERGENCY_AMBULANCE == "emergency_ambulance"
EMERGENCY == "emergency"
CONSULTATION_24 == "consultation_24"
CONSULTATION == "consultation"
SELF_CARE == "self_care"

TriageLevel == {EMERGENCY_AMBULANCE, EMERGENCY, CONSULTATION_24,
                CONSULTATION, SELF_CARE}

(* Python str: a sequence of characters *)
ascii_uppercase == <<"A", "B", "C", "D", "E", "F", "G", "H", "I", "J", "K",
                     "L", "M", "N", "O", "P", "Q", "R", "S", "T", "U", "V",
                     "W", "X", "Y", "Z">>
ascii_lowercase == <<"a", "b", "c", "d", "e", "f", "g", "h", "i", "j", "k",
                     "l", "m", "n", "o", "p", "q", "r", "s", "t", "u", "v",
                     "w", "x", "y", "z">>

\* str.lower()
lower(str) ==
    [i \in 1..Len(str) |->
        IF \E j \in 1..Len(ascii_uppercase) : ascii_uppercase[j] = str[i]
        THEN ascii_lowercase[CHOOSE j \in 1..Len(ascii_uppercase) :
                                 ascii_uppercase[j] = str[i]]
        ELSE str[i]]

\* a in b, for two str
In(a, b) ==
    \E i \in 0..(Len(b) - Len(a)) : SubSeq(b, i + 1, i + Len(a)) = a

PRIMARY_CARE == <<"P", "r", "i", "m", "a", "r", "y", " ", "C", "a", "r", "e">>
CARDIOLOGY == <<"C", "a", "r", "d", "i", "o", "l", "o", "g", "y">>
DERMATOLOGY == <<"D", "e", "r", "m", "a", "t", "o", "l", "o", "g", "y">>

\* the provider specialties of the slots scored
SpecialtyType == {PRIMARY_CARE, CARDIOLOGY, DERMATOLOGY}

\* the specialist names the triage recommends
RecommendedSpecialists ==
    {CARDIOLOGY, lower(CARDIOLOGY), DERMATOLOGY,
     <<"C", "a", "r", "d", "i", "o">>,
     <<"P", "r", "i", "m", "a", "r", "y">>}

\* weights that count availability for 30%
weights_heavy ==
    [urgency_match |-> 5, specialist_match |-> 3, availability |-> 3]

weights ==
    [urgency_match |-> 5, specialist_match |-> 3, availability |-> 2]

\* whole days, rounded up
Days_ceiling(delta) == -((-delta) \div TicksPerDay)

\* timedelta.days: whole days, rounded down
Days(delta) == delta \div TicksPerDay

\* requirements that ask for immediate care at both emergency levels
urgency_requirements_immediate ==
    [emergency_ambulance |-> [max_hours |-> 0],
     emergency |-> [max_hours |-> 0],
     consultation_24 |-> [max_hours |-> 24],
     consultation |-> [max_days |-> 7],
     self_care |-> [max_days |-> 30]]

urgency_requirements ==
    [emergency_ambulance |-> [max_hours |-> 0],
     emergency |-> [max_hours |-> 1],
     consultation_24 |-> [max_hours |-> 24],
     consultation |-> [max_days |-> 7],
     self_care |-> [max_days |-> 30]]

\* the two middle steps of the emergency branch exchanged
_calculate_urgency_match_swapped(triage_level, slot_datetime, clock) ==
    LET days_until == Days(slot_datetime - clock)
        \* hours_until * TicksPerHour
        ticks_until == slot_datetime - clock
        req == urgency_requirements[triage_level]
    IN  IF triage_level \in {EMERGENCY_AMBULANCE, EMERGENCY}
        THEN IF ticks_until <= req.max_hours * TicksPerHour THEN 10
             ELSE IF days_until <= 1 THEN 4
             ELSE IF days_until <= 2 THEN 7
             ELSE 1
        ELSE IF triage_level = CONSULTATION_24
        THEN IF days_until <= 1 THEN 10
             ELSE IF days_until <= 2 THEN 8
             ELSE IF days_until <= 7 THEN 5
             ELSE 3
        ELSE IF triage_level = CONSULTATION
        THEN IF days_until <= 7 THEN 10
             ELSE IF days_until <= 14 THEN 8
             ELSE 6
        ELSE IF days_until <= 30 THEN 10
             ELSE 8

_calculate_urgency_match(triage_level, slot_datetime, clock) ==
    LET days_until == Days(slot_datetime - clock)
        \* hours_until * TicksPerHour
        ticks_until == slot_datetime - clock
        req == urgency_requirements[triage_level]
    IN  IF triage_level \in {EMERGENCY_AMBULANCE, EMERGENCY}
        THEN IF ticks_until <= req.max_hours * TicksPerHour THEN 10
             ELSE IF days_until <= 1 THEN 7
             ELSE IF days_until <= 2 THEN 4
             ELSE 1
        ELSE IF triage_level = CONSULTATION_24
        THEN IF days_until <= 1 THEN 10
             ELSE IF days_until <= 2 THEN 8
             ELSE IF days_until <= 7 THEN 5
             ELSE 3
        ELSE IF triage_level = CONSULTATION
        THEN IF days_until <= 7 THEN 10
             ELSE IF days_until <= 14 THEN 8
             ELSE 6
        ELSE IF days_until <= 30 THEN 10
             ELSE 8

\* the partial match tried before the Primary Care fallback
_calculate_specialist_match_partial_first(recommended, provider_specialty) ==
    IF lower(recommended) = lower(provider_specialty) THEN 10
    ELSE IF \/ In(lower(recommended), lower(provider_specialty))
            \/ In(lower(provider_specialty), lower(recommended)) THEN 8
    ELSE IF provider_specialty = PRIMARY_CARE THEN 7
    ELSE 3

_calculate_specialist_match(recommended, provider_specialty) ==
    IF lower(recommended) = lower(provider_specialty) THEN 10
    ELSE IF provider_specialty = PRIMARY_CARE THEN 7
    ELSE IF \/ In(lower(recommended), lower(provider_specialty))
            \/ In(lower(provider_specialty), lower(recommended)) THEN 8
    ELSE 3

\* an availability score that ignores the triage level
_calculate_availability_score_routine(triage_level, slot_datetime, clock) ==
    LET days_until == Days(slot_datetime - clock)
    IN  IF days_until <= 7 THEN 10
        ELSE IF days_until <= 14 THEN 9
        ELSE 7

_calculate_availability_score(triage_level, slot_datetime, clock) ==
    LET days_until == Days(slot_datetime - clock)
    IN  IF triage_level \in {EMERGENCY_AMBULANCE, EMERGENCY}
        THEN IF days_until = 0 THEN 10
             ELSE IF days_until = 1 THEN 5
             ELSE 2
        ELSE IF triage_level = CONSULTATION_24
        THEN IF days_until <= 1 THEN 10
             ELSE IF days_until <= 3 THEN 7
             ELSE 5
        ELSE IF triage_level = CONSULTATION
        THEN IF days_until <= 7 THEN 10
             ELSE IF days_until <= 14 THEN 9
             ELSE 7
        ELSE 8

\* an AppointmentScore with two components stored in each other's field
AppointmentScore_swapped(slt, total, urgency, specialist, availability) ==
    [slot |-> slt, total_score |-> total, urgency_match_score |-> urgency,
     specialist_match_score |-> availability,
     availability_score |-> specialist]

AppointmentScore(slt, total, urgency, specialist, availability) ==
    [slot |-> slt, total_score |-> total, urgency_match_score |-> urgency,
     specialist_match_score |-> specialist,
     availability_score |-> availability]

\* the AppointmentScore _score_appointment returns for a slot
Scored(trg, slt, clock) ==
    LET urgency_score ==
            _calculate_urgency_match(trg.triage_level, slt.datetime, clock)
        specialist_score ==
            _calculate_specialist_match(trg.recommended_specialist,
                                        slt.provider.specialty)
        availability_score ==
            _calculate_availability_score(trg.triage_level, slt.datetime,
                                          clock)
        total_score ==
            urgency_score * weights.urgency_match
                + specialist_score * weights.specialist_match
                + availability_score * weights.availability
    IN  AppointmentScore(slt, total_score, urgency_score, specialist_score,
                         availability_score)

_score_appointment ==
    /\ score = None
    /\ score' = Scored(triage, slot, now)
    /\ UNCHANGED <<now, triage, slot>>
    /\ UNCHANGED <<state_vars, pending_vars, call_vars, ranking_vars,
                   optimizer_vars, app_vars>>

\* any triage result, any slot around now, not yet scored
ScoreInit ==
    /\ InterviewInit
    /\ now \in 0..MaxNow
    /\ triage \in [triage_level : TriageLevel,
                   recommended_specialist : RecommendedSpecialists]
    /\ \E specialty \in SpecialtyType :
       \E offset \in (-(PastDays * TicksPerDay))..(MaxDays * TicksPerDay) :
           slot = [datetime |-> now + offset,
                   provider |-> [specialty |-> specialty]]
    /\ score = None
    /\ RankingIdle
    /\ OptimizerIdle
    /\ AppIdle

ScoreNext == _score_appointment

ScoreSpec == ScoreInit /\ [][ScoreNext]_vars

----------------------------------------------------------------------------
(* AppointmentMatcher.match_appointments: the ranking of a list of slots *)

\* the longest list of candidate slots
MaxSlots == 3
\* the largest max_results
MaxResults == 3

\* the candidate slots: two Cardiology slots, a Primary Care slot and a
\* booked Cardiology slot
AppointmentSlot(id, offset, specialty, available) ==
    [id |-> id, datetime |-> offset,
     provider |-> [specialty |-> specialty], available |-> available]

SlotPool ==
    {AppointmentSlot("slot_1", 2, CARDIOLOGY, TRUE),
     AppointmentSlot("slot_2", 4, CARDIOLOGY, TRUE),
     AppointmentSlot("slot_3", 2, PRIMARY_CARE, TRUE),
     AppointmentSlot("slot_4", 2, CARDIOLOGY, FALSE)}

\* the lists of at most MaxSlots different slots of the pool
SlotLists ==
    UNION {{l \in [1..n -> SlotPool] :
               \A i, j \in 1..n : i # j => l[i] # l[j]} : n \in 0..MaxSlots}

\* list[:n]
Slice_inclusive(list, n) ==
    IF n >= 0 THEN SubSeq(list, 1, IF n + 1 < Len(list) THEN n + 1
                                   ELSE Len(list))
    ELSE SubSeq(list, 1, Len(list) + n)

\* list[:n]
Slice(list, n) ==
    IF n >= 0 THEN SubSeq(list, 1, IF n < Len(list) THEN n ELSE Len(list))
    ELSE SubSeq(list, 1, Len(list) + n)

\* the number of leading items of a list sorted by falling total_score
\* that an item with the given total_score is put behind
Ahead_higher(list, total) ==
    Cardinality({i \in 1..Len(list) : list[i].total_score > total})

Ahead(list, total) ==
    Cardinality({i \in 1..Len(list) : list[i].total_score >= total})

\* list.sort(key=lambda x: x.total_score, reverse=True): a stable sort,
\* items of equal total_score keep their order
RECURSIVE sort_reverse(_)
sort_reverse(list) ==
    IF list = <<>> THEN <<>>
    ELSE LET front == sort_reverse(SubSeq(list, 1, Len(list) - 1))
             x == list[Len(list)]
             k == Ahead(front, x.total_score)
         IN  SubSeq(front, 1, k) \o <<x>> \o SubSeq(front, k + 1, Len(front))

\* the slots of a list that match_appointments scores
Open(slots) == SelectSeq(slots, LAMBDA s : s.available)

\* the list match_appointments returns
Ranked(trg, slots, maxr, clock) ==
    LET scored_appointments ==
            [i \in 1..Len(Open(slots)) |-> Scored(trg, Open(slots)[i], clock)]
    IN  Slice(sort_reverse(scored_appointments), maxr)

match_appointments ==
    /\ \E triage_result \in [triage_level : {EMERGENCY, CONSULTATION},
                              recommended_specialist : {CARDIOLOGY}],
          slots \in SlotLists, maxr \in 0..MaxResults :
          /\ op' = "match_appointments"
          /\ args' = [triage_result |-> triage_result,
                      available_slots |-> slots, max_results |-> maxr]
          /\ scored' = Open(slots)
          /\ ret' = ReturnList(Ranked(triage_result, slots, maxr, now))
    /\ raised' = NoError
    /\ called' = NoCall
    /\ wire' = NoWire
    /\ UNCHANGED <<state_vars, pending_vars, matcher_vars, optimizer_vars,
                   app_vars>>

\* telemedicine offered at every level
get_alternative_options_telemedicine(triage_result) ==
    (IF triage_result.triage_level \in {EMERGENCY_AMBULANCE, EMERGENCY}
     THEN <<"Emergency Department">> ELSE <<>>)
        \o (IF triage_result.triage_level \in {EMERGENCY, CONSULTATION_24}
            THEN <<"Urgent Care Center">> ELSE <<>>)
        \o <<"Telemedicine Visit">>
        \o (IF triage_result.triage_level = SELF_CARE
            THEN <<"Self-Care & Monitoring">> ELSE <<>>)

\* the type of each option of get_alternative_options, in order
get_alternative_options(triage_result) ==
    (IF triage_result.triage_level \in {EMERGENCY_AMBULANCE, EMERGENCY}
     THEN <<"Emergency Department">> ELSE <<>>)
        \o (IF triage_result.triage_level \in {EMERGENCY, CONSULTATION_24}
            THEN <<"Urgent Care Center">> ELSE <<>>)
        \o (IF triage_result.triage_level # EMERGENCY_AMBULANCE
            THEN <<"Telemedicine Visit">> ELSE <<>>)
        \o (IF triage_result.triage_level = SELF_CARE
            THEN <<"Self-Care & Monitoring">> ELSE <<>>)

RankNext == match_appointments

RankSpec == Init /\ [][RankNext]_vars

----------------------------------------------------------------------------
(* AppointmentOptimizer.optimize and the client calls of the pipeline.      *)
(* One call of optimize is one step; calls lists the steps it invoked, each *)
(* with what the step was given or, for a request, what the service        *)
(* answered.                                                               *)

ORTHOPEDICS == <<"O", "r", "t", "h", "o", "p", "e", "d", "i", "c", "s">>
NEUROLOGY == <<"N", "e", "u", "r", "o", "l", "o", "g", "y">>
PSYCHIATRY == <<"P", "s", "y", "c", "h", "i", "a", "t", "r", "y">>
PEDIATRICS == <<"P", "e", "d", "i", "a", "t", "r", "i", "c", "s">>

\* every member of the enumeration SpecialtyType
AllSpecialtyTypes ==
    SpecialtyType \cup {ORTHOPEDICS, NEUROLOGY, PSYCHIATRY, PEDIATRICS}

AttributeError == "AttributeError"

\* getattr fails on an attribute the object does not have
HasAttr(obj, attr) == attr \in DOMAIN obj

\* the step of a run: what was invoked and what it was given or answered
Call(step, input) == [step |-> step, input |-> input]

\* the PatientInfo of a request: an empty, a blank and a non-blank text
PatientInfo(text, sex) == [age |-> 30, sex |-> sex, symptom_text |-> text]

Patients ==
    {PatientInfo(text, sex) :
        text \in {<<>>, <<" ", " ">>, <<"f", "e", "v", "e", "r">>},
        sex \in {"male", "female"}}

\* answers to POST /parse
ParseResponses ==
    {[status |-> "error"]}
        \cup {[status |-> "ok", data |-> [mentions |-> m]] : m \in MentionLists}

\* answers to POST /triage
TriageResponses ==
    {[status |-> "error"]}
        \cup {[status |-> "ok", data |-> [triage_level |-> l]] :
                 l \in TriageLevel}
        \cup {[status |-> "ok",
               data |-> [triage_level |-> l,
                         serious |-> <<[id |-> "s_1", name |-> "Chest pain"]>>,
                         root_cause |-> "s_1"]] : l \in TriageLevel}

\* answers to POST /recommend_specialist
RecommendResponses ==
    {[status |-> "error"],
     [status |-> "ok", data |-> [message |-> "none"]],
     [status |-> "ok",
      data |-> [recommended_specialist |->
                    [id |-> "sp_2", name |-> "Cardiologist"]]],
     [status |-> "ok",
      data |-> [recommended_specialist |->
                    [id |-> "sp_2", name |-> "Cardiologist",
                     category |-> "Cardiology"]]]}

\* infermedica_client.TriageResult
TriageResult(level, serious, root_cause) ==
    [triage_level |-> level, serious_observations |-> serious,
     root_cause |-> root_cause]

\* a run_triage that answers a failure with a default result
run_triage_defaulting(resp) ==
    IF resp.status = "ok"
    THEN Returned(TriageResult(resp.data.triage_level,
                               Get(resp.data, "serious", <<>>),
                               Get(resp.data, "root_cause", "")))
    ELSE Returned(TriageResult(CONSULTATION, <<>>, ""))

run_triage(resp) ==
    IF resp.status = "ok"
    THEN Returned(TriageResult(resp.data.triage_level,
                               Get(resp.data, "serious", <<>>),
                               Get(resp.data, "root_cause", "")))
    ELSE Raised(RequestException)

SpecialistRecommendation(id, name, category) ==
    [specialist_id |-> id, specialist_name |-> name,
     specialist_category |-> category]

recommend_specialist(resp) ==
    IF resp.status = "ok"
    THEN LET specialist == Get(resp.data, "recommended_specialist", <<>>)
         IN  Returned(SpecialistRecommendation(
                 Get(specialist, "id", "sp_1"),
                 Get(specialist, "name", "General Practitioner"),
                 Get(specialist, "category", "Primary Care")))
    ELSE Returned(SpecialistRecommendation("sp_1", "General Practitioner",
                                           "Primary Care"))

\* the lookup table of _map_specialist_to_specialty
mapping ==
    (<<"g", "e", "n", "e", "r", "a", "l", " ", "p", "r", "a", "c", "t", "i", "t", "i", "o", "n", "e", "r">>
        :> PRIMARY_CARE)
    @@ (<<"p", "r", "i", "m", "a", "r", "y", " ", "c", "a", "r", "e">>
           :> PRIMARY_CARE)
    @@ (<<"c", "a", "r", "d", "i", "o", "l", "o", "g", "i", "s", "t">>
           :> CARDIOLOGY)
    @@ (<<"c", "a", "r", "d", "i", "o", "l", "o", "g", "y">>
           :> CARDIOLOGY)
    @@ (<<"d", "e", "r", "m", "a", "t", "o", "l", "o", "g", "i", "s", "t">>
           :> DERMATOLOGY)
    @@ (<<"o", "r", "t", "h", "o", "p", "e", "d", "i", "s", "t">>
           :> ORTHOPEDICS)
    @@ (<<"o", "r", "t", "h", "o", "p", "e", "d", "i", "c", "s">>
           :> ORTHOPEDICS)
    @@ (<<"n", "e", "u", "r", "o", "l", "o", "g", "i", "s", "t">>
           :> NEUROLOGY)
    @@ (<<"p", "s", "y", "c", "h", "i", "a", "t", "r", "i", "s", "t">>
           :> PSYCHIATRY)
    @@ (<<"p", "e", "d", "i", "a", "t", "r", "i", "c", "i", "a", "n">>
           :> PEDIATRICS)

\* a lookup of the name as it is written
_map_specialist_to_specialty_exact(specialist_name) ==
    Get(mapping, specialist_name, PRIMARY_CARE)

_map_specialist_to_specialty(specialist_name) ==
    LET specialist_lower == lower(specialist_name)
    IN  Get(mapping, specialist_lower, PRIMARY_CARE)

\* the specialist names normalized
SpecialistNames ==
    {<<>>, CARDIOLOGY, DERMATOLOGY, PRIMARY_CARE, PEDIATRICS,
     <<"C", "a", "r", "d", "i", "o", "l", "o", "g", "i", "s", "t">>,
     <<"P", "E", "D", "I", "A", "T", "R", "I", "C", "I", "A", "N">>,
     <<"G", "e", "n", "e", "r", "a", "l", " ", "p", "r", "a", "c", "t",
       "i", "t", "i", "o", "n", "e", "r">>,
     <<"I", "n", "t", "e", "r", "n", "i", "s", "t">>}

_convert_triage_for_matcher(trg) ==
    [triage_level |-> trg.triage_level,
     recommended_specialist |-> trg.recommended_specialist_name,
     serious_observations |->
         [i \in 1..Len(trg.serious_observations) |->
             Get(trg.serious_observations[i], "name", "")],
     root_cause |-> trg.root_cause]

OptimizationResult(pat, symptoms, trg, recs, alternatives) ==
    [patient |-> pat, parsed_symptoms |-> symptoms, triage |-> trg,
     recommended_appointments |-> recs, alternative_options |-> alternatives]

\* the slots the simulator can generate for a specialty; the urgent query
\* keeps the available ones
GeneratedSlots(specialty, urgent) ==
    {l \in SlotLists :
        \A i \in 1..Len(l) : /\ l[i].provider.specialty = specialty
                              /\ urgent => l[i].available}

\* an object returned, as the value of ret
ReturnObject(o) == [kind |-> "object", value |-> o]

optimize ==
    /\ \E pat \in Patients, parsed \in ParseResponses,
          triaged \in TriageResponses :
          LET parse_call == Call("parse_symptoms", parsed)
              symptoms == parse_symptoms(Get(parsed.data, "mentions", <<>>))
              triage_call == Call("run_triage", triaged)
              trg == run_triage(triaged)
          IN  /\ op' = "optimize"
              /\ args' = [patient |-> pat]
              /\ IF parsed.status # "ok"
                 THEN /\ calls' = <<parse_call>>
                      /\ raised' = RequestException
                      /\ ret' = ReturnNone
                 ELSE IF trg.raised # NoError
                 THEN /\ calls' = <<parse_call, triage_call>>
                      /\ raised' = trg.raised
                      /\ ret' = ReturnNone
                 ELSE IF ~HasAttr(trg.value, "recommended_specialist_name")
                 THEN /\ calls' = <<parse_call, triage_call>>
                      /\ raised' = AttributeError
                      /\ ret' = ReturnNone
                 ELSE LET name == trg.value.recommended_specialist_name
                          specialty == _map_specialist_to_specialty(name)
                          urgent == trg.value.triage_level
                                        \in {EMERGENCY, EMERGENCY_AMBULANCE}
                          matcher_triage ==
                              _convert_triage_for_matcher(trg.value)
                      IN  \E slots \in GeneratedSlots(specialty, urgent) :
                              /\ calls' =
                                     <<parse_call, triage_call,
                                       Call("_map_specialist_to_specialty",
                                            [name |-> name]),
                                       Call(IF urgent THEN "get_urgent_slots"
                                            ELSE "generate_slots",
                                            [specialty |-> specialty,
                                             days_ahead |->
                                                 IF urgent THEN 2 ELSE 14]),
                                       Call("match_appointments",
                                            [max_results |-> 5]),
                                       Call("get_alternative_options",
                                            matcher_triage)>>
                              /\ raised' = NoError
                              /\ ret' =
                                     ReturnObject(OptimizationResult(
                                         pat, symptoms, trg.value,
                                         Ranked(matcher_triage, slots, 5, now),
                                         get_alternative_options(
                                             matcher_triage)))
    /\ called' = NoCall
    /\ wire' = NoWire
    /\ UNCHANGED <<state_vars, pending_vars, matcher_vars, ranking_vars,
                   app_vars>>

\* a call of InfermedicaClient.recommend_specialist
call_recommend_specialist ==
    /\ \E symptoms \in {parse_symptoms(m) : m \in MentionLists},
          answered \in RecommendResponses :
          /\ op' = "recommend_specialist"
          /\ args' = [symptoms |-> symptoms]
          /\ called' = "recommend_specialist"
          /\ wire' = answered
          /\ raised' = recommend_specialist(answered).raised
          /\ ret' = IF recommend_specialist(answered).raised = NoError
                    THEN ReturnObject(recommend_specialist(answered).value)
                    ELSE ReturnNone
    /\ UNCHANGED <<state_vars, pending_vars, matcher_vars, ranking_vars,
                   optimizer_vars, app_vars>>

\* a call of AppointmentOptimizer._map_specialist_to_specialty
call_map_specialist_to_specialty ==
    /\ \E specialist_name \in SpecialistNames :
          /\ op' = "_map_specialist_to_specialty"
          /\ args' = [specialist_name |-> specialist_name]
          /\ ret' = ReturnObject(
                        [specialty |->
                            _map_specialist_to_specialty(specialist_name)])
    /\ raised' = NoError
    /\ called' = NoCall
    /\ wire' = NoWire
    /\ UNCHANGED <<state_vars, pending_vars, matcher_vars, ranking_vars,
                   optimizer_vars, app_vars>>

\* a call of AppointmentMatcher.get_alternative_options
call_get_alternative_options ==
    /\ \E triage_result \in [triage_level : TriageLevel,
                              recommended_specialist :
                                  {CARDIOLOGY, PRIMARY_CARE}] :
          /\ op' = "get_alternative_options"
          /\ args' = [triage_result |-> triage_result]
          /\ ret' = ReturnList(get_alternative_options(triage_result))
    /\ raised' = NoError
    /\ called' = NoCall
    /\ wire' = NoWire
    /\ UNCHANGED <<state_vars, pending_vars, matcher_vars, ranking_vars,
                   optimizer_vars, app_vars>>

OptNext ==
    \/ optimize
    \/ call_recommend_specialist
    \/ call_map_specialist_to_specialty
    \/ call_get_alternative_options

OptSpec == Init /\ [][OptNext]_vars

----------------------------------------------------------------------------
(* app_full: the Streamlit page of the full interview.  One action is one  *)
(* run of the script main(), dispatched to one render function.  The page  *)
(* the last run left on the screen tells which button the user can press;  *)
(* a button reads as pressed only in a run that renders it again.          *)

initialize_session_state ==
    [manager |-> FALSE, pending_risk_factors |-> <<>>,
     pending_related_symptoms |-> <<>>, pending_red_flags |-> <<>>,
     current_question |-> None, final_results |-> None, page |-> "rerun"]

\* the texts typed into the symptom box
SymptomTexts == {<<" ", " ">>, <<"f", "e", "v", "e", "r">>}

\* str.strip() leaves nothing
Blank(text) == \A i \in 1..Len(text) : text[i] = " "

\* the ledger entries the form of a suggested list records, one per item
FormEvidence(items, choice) ==
    [i \in 1..Len(items) |-> EvidenceItem(items[i].id, choice[i], "suggest")]

FormHistory(items, choice, stg, type, pending, default) ==
    [i \in 1..Len(items) |->
        LET name == ItemName(pending, items[i].id, default)
        IN  InterviewHistory(stg, <<"Do you have ", name, "?">>, type,
                             items[i].id, name, choice[i])]

\* the manager call a run made last
LastCall(method, arguments, returned, endpoint, answer) ==
    /\ op' = method
    /\ args' = arguments
    /\ ret' = returned
    /\ raised' = NoError
    /\ called' = endpoint
    /\ wire' = answer

AppFrame == UNCHANGED <<matcher_vars, ranking_vars, optimizer_vars>>

render_stage_1_initial_symptoms ==
    /\ session # None
    /\ ~session.manager
    /\ AppFrame
    /\ IF session.page # "stage_1"
       THEN /\ session' = [session EXCEPT !.page = "stage_1"]
            /\ UNCHANGED <<state_vars, pending_vars, call_vars>>
       ELSE \E symptom_text \in SymptomTexts, resp \in ParseResponses :
                IF Blank(symptom_text) \/ resp.status # "ok"
                THEN UNCHANGED <<state_vars, pending_vars, call_vars,
                                 session>>
                ELSE LET parsed == parse_symptoms(
                                       Get(resp.data, "mentions", <<>>))
                         n == Len(parsed)
                     IN  /\ stage' = INITIAL_SYMPTOMS
                         /\ evidence' = Extend(evidence,
                                [i \in 1..n |-> InitialEvidence(parsed[i])])
                         /\ history' = Extend(history,
                                [i \in 1..n |->
                                    InterviewHistory(INITIAL_SYMPTOMS,
                                        <<"Initial symptoms">>, "initial",
                                        parsed[i].id, parsed[i].name,
                                        parsed[i].choice_id)])
                         /\ UNCHANGED <<conditions, is_complete,
                                        questions_asked, current_question,
                                        pending_vars>>
                         /\ LastCall("start_interview",
                                     [initial_symptoms |-> parsed],
                                     ReturnNone, NoCall, NoWire)
                         /\ session' = [session EXCEPT !.manager = TRUE,
                                                       !.page = "rerun"]

render_stage_2_risk_factors ==
    /\ session # None
    /\ session.manager
    /\ \/ stage = INITIAL_SYMPTOMS
       \/ stage = RISK_FACTORS /\ session.pending_risk_factors # <<>>
    /\ AppFrame
    /\ IF session.pending_risk_factors = <<>>
       THEN \E resp \in SuggestResponses :
                LET risk_factors == suggest_risk_factors(resp).value
                IN  /\ pending_risk_factors' = risk_factors
                    /\ stage' = RISK_FACTORS
                    /\ UNCHANGED <<evidence, history, conditions,
                                   is_complete, questions_asked,
                                   current_question,
                                   pending_related_symptoms,
                                   pending_red_flags>>
                    /\ LastCall("collect_risk_factors", <<>>,
                                ReturnList(risk_factors),
                                "suggest:demographic_risk_factors", resp)
                    /\ session' =
                           [session EXCEPT
                               !.pending_risk_factors = risk_factors,
                               !.page = IF risk_factors = <<>>
                                        THEN "risk_factors_info"
                                        ELSE "risk_factors_form"]
       ELSE LET items == session.pending_risk_factors
                n == Len(items)
            IN  IF session.page # "risk_factors_form"
                THEN /\ session' =
                            [session EXCEPT !.page = "risk_factors_form"]
                     /\ UNCHANGED <<state_vars, pending_vars, call_vars>>
                ELSE \E choice \in [1..n -> Responses] :
                         /\ evidence' =
                                Extend(evidence, FormEvidence(items, choice))
                         /\ history' =
                                Extend(history,
                                       FormHistory(items, choice,
                                           RISK_FACTORS, "risk_factor",
                                           pending_risk_factors,
                                           "Risk factor"))
                         /\ UNCHANGED <<stage, conditions, is_complete,
                                        questions_asked, current_question,
                                        pending_vars>>
                         /\ LastCall("add_risk_factor_response",
                                     [risk_factor_id |-> items[n].id,
                                      response |-> choice[n]],
                                     ReturnNone, NoCall, NoWire)
                         /\ session' =
                                [session EXCEPT
                                    !.pending_risk_factors = <<>>,
                                    !.page = "rerun"]

render_stage_3_related_symptoms ==
    /\ session # None
    /\ session.manager
    /\ \/ stage = RISK_FACTORS /\ session.pending_risk_factors = <<>>
       \/ stage = RELATED_SYMPTOMS /\ session.pending_related_symptoms # <<>>
    /\ AppFrame
    /\ IF session.pending_related_symptoms = <<>>
       THEN \E resp \in SuggestResponses :
                LET related == suggest_related_symptoms(resp).value
                IN  /\ pending_related_symptoms' = related
                    /\ stage' = RELATED_SYMPTOMS
                    /\ UNCHANGED <<evidence, history, conditions,
                                   is_complete, questions_asked,
                                   current_question, pending_risk_factors,
                                   pending_red_flags>>
                    /\ LastCall("collect_related_symptoms", <<>>,
                                ReturnList(related), "suggest:symptoms", resp)
                    /\ session' =
                           [session EXCEPT
                               !.pending_related_symptoms = related,
                               !.page = IF related = <<>>
                                        THEN "related_symptoms_info"
                                        ELSE "related_symptoms_form"]
       ELSE LET items == session.pending_related_symptoms
                n == Len(items)
            IN  IF session.page # "related_symptoms_form"
                THEN /\ session' =
                            [session EXCEPT !.page = "related_symptoms_form"]
                     /\ UNCHANGED <<state_vars, pending_vars, call_vars>>
                ELSE \E choice \in [1..n -> Responses] :
                         /\ evidence' =
                                Extend(evidence, FormEvidence(items, choice))
                         /\ history' =
                                Extend(history,
                                       FormHistory(items, choice,
                                           RELATED_SYMPTOMS,
                                           "related_symptom",
                                           pending_related_symptoms,
                                           "Symptom"))
                         /\ UNCHANGED <<stage, conditions, is_complete,
                                        questions_asked, current_question,
                                        pending_vars>>
                         /\ LastCall("add_related_symptom_response",
                                     [symptom_id |-> items[n].id,
                                      response |-> choice[n]],
                                     ReturnNone, NoCall, NoWire)
                         /\ session' =
                                [session EXCEPT
                                    !.pending_related_symptoms = <<>>,
                                    !.page = "rerun"]

render_stage_4_red_flags ==
    /\ session # None
    /\ session.manager
    /\ stage = RELATED_SYMPTOMS
    /\ session.pending_related_symptoms = <<>>
    /\ AppFrame
    /\ IF session.pending_red_flags = <<>>
       THEN \E resp \in SuggestResponses :
                LET red_flags == suggest_red_flags(resp).value
                IN  /\ pending_red_flags' = red_flags
                    /\ stage' = RED_FLAGS
                    /\ UNCHANGED <<evidence, history, conditions,
                                   is_complete, questions_asked,
                                   current_question, pending_risk_factors,
                                   pending_related_symptoms>>
                    /\ LastCall("check_red_flags", <<>>,
                                ReturnList(red_flags), "suggest:red_flags",
                                resp)
                    /\ session' =
                           [session EXCEPT
                               !.pending_red_flags = red_flags,
                               !.page = IF red_flags = <<>>
                                        THEN "red_flags_info"
                                        ELSE "red_flags_form"]
       ELSE LET items == session.pending_red_flags
                n == Len(items)
            IN  IF session.page # "red_flags_form"
                THEN /\ session' = [session EXCEPT !.page = "red_flags_form"]
                     /\ UNCHANGED <<state_vars, pending_vars, call_vars>>
                ELSE \E choice \in [1..n -> Responses] :
                         /\ evidence' =
                                Extend(evidence, FormEvidence(items, choice))
                         /\ history' =
                                Extend(history,
                                       FormHistory(items, choice, RED_FLAGS,
                                           "red_flag", pending_red_flags,
                                           "Red flag symptom"))
                         /\ UNCHANGED <<stage, conditions, is_complete,
                                        questions_asked, current_question,
                                        pending_vars>>
                         /\ LastCall("add_red_flag_response",
                                     [red_flag_id |-> items[n].id,
                                      response |-> choice[n]],
                                     ReturnNone, NoCall, NoWire)
                         /\ session' =
                                [session EXCEPT !.pending_red_flags = <<>>,
                                                !.page = "rerun"]

\* what get_final_results returns once the interview is complete
FinalResults(conds, ev, asked, hist) ==
    [conditions |-> conds, evidence |-> ev, questions_asked |-> asked,
     history |-> [i \in 1..Len(hist) |-> HistoryDict(hist[i])]]

render_stage_5_interview_loop ==
    /\ session # None
    /\ session.manager
    /\ stage \in {RED_FLAGS, INTERVIEW_LOOP}
    /\ ~is_complete
    /\ session.page # "no_question"
    /\ AppFrame
    /\ IF session.current_question = None
       THEN \E resp \in DiagnosisResponses :
                LET result == diagnosis(resp).value
                IN  /\ conditions' = result.conditions
                    /\ UNCHANGED <<evidence, history, pending_vars>>
                    /\ IF result.should_stop
                       THEN /\ is_complete' = TRUE
                            /\ stage' = COMPLETE
                            /\ current_question' = None
                            /\ UNCHANGED questions_asked
                            /\ LastCall("get_final_results", <<>>,
                                   ReturnDict(FinalResults(result.conditions,
                                       evidence, questions_asked, history)),
                                   NoCall, NoWire)
                            /\ session' =
                                   [session EXCEPT
                                       !.final_results =
                                           FinalResults(result.conditions,
                                               evidence, questions_asked,
                                               history),
                                       !.page = "rerun"]
                       ELSE /\ questions_asked < MaxQuestions
                            /\ stage' = LoopStage(stage)
                            /\ current_question' = result.question
                            /\ questions_asked' = questions_asked + 1
                            /\ UNCHANGED is_complete
                            /\ LastCall("get_next_question", <<>>,
                                   IF result.question = None THEN ReturnNone
                                   ELSE ReturnQuestion(result.question),
                                   "diagnosis", resp)
                            /\ session' =
                                   [session EXCEPT
                                       !.current_question = result.question,
                                       !.page = IF result.question = None
                                                THEN "no_question"
                                                ELSE "question"]
       ELSE LET question == session.current_question
                item_id == IF question.items = <<>> THEN NoneStr
                           ELSE Get(question.items[1], "id", NoneStr)
                item_name == ItemName(current_question.items, item_id,
                                      "Symptom")
            IN  \E response \in Responses :
                    /\ evidence' = Append(evidence,
                           EvidenceItem(item_id, response, "predefined"))
                    /\ history' = Append(history,
                           InterviewHistory(INTERVIEW_LOOP,
                               current_question.question_text,
                               current_question.question_type,
                               item_id, item_name, response))
                    /\ UNCHANGED <<stage, conditions, is_complete,
                                   questions_asked, current_question,
                                   pending_vars>>
                    /\ LastCall("answer_question",
                                [item_id |-> item_id, response |-> response],
                                ReturnNone, NoCall, NoWire)
                    /\ session' = [session EXCEPT !.current_question = None,
                                                  !.page = "rerun"]

render_stage_6_results ==
    /\ session # None
    /\ session.manager
    /\ \/ stage = COMPLETE
       \/ stage \in {RED_FLAGS, INTERVIEW_LOOP} /\ is_complete
    /\ session.page # "results"
    /\ AppFrame
    /\ session' = [session EXCEPT !.page = "results"]
    /\ UNCHANGED <<state_vars, pending_vars, call_vars>>

\* the sidebar button "Start New Interview": every key of the session is
\* deleted, the manager with it, and the script runs again
start_new_interview ==
    /\ session # None
    /\ session.manager
    /\ AppFrame
    /\ session' = initialize_session_state
    /\ stage' = NOT_STARTED
    /\ evidence' = <<>>
    /\ history' = <<>>
    /\ conditions' = <<>>
    /\ is_complete' = FALSE
    /\ questions_asked' = 0
    /\ current_question' = None
    /\ pending_risk_factors' = <<>>
    /\ pending_related_symptoms' = <<>>
    /\ pending_red_flags' = <<>>
    /\ LastCall("__init__", <<>>, ReturnNone, NoCall, NoWire)

AppInit ==
    /\ InterviewInit
    /\ MatcherIdle
    /\ RankingIdle
    /\ OptimizerIdle
    /\ session = initialize_session_state

AppNext ==
    \/ render_stage_1_initial_symptoms
    \/ render_stage_2_risk_factors
    \/ render_stage_3_related_symptoms
    \/ render_stage_4_red_flags
    \/ render_stage_5_interview_loop
    \/ render_stage_6_results
    \/ start_new_interview

AppSpec == AppInit /\ [][AppNext]_vars

----------------------------------------------------------------------------
(* Properties of the interview *)

StageIndex(stg) == CHOOSE i \in 1..Len(InterviewStage) : InterviewStage[i] = stg

CollectOps == {"collect_risk_factors", "collect_related_symptoms",
               "check_red_flags"}

\* the stage a collecting method is valid in, and the stage it moves to
ValidStage(o) ==
    CASE o = "collect_risk_factors" -> INITIAL_SYMPTOMS
      [] o = "collect_related_symptoms" -> RISK_FACTORS
      [] o = "check_red_flags" -> RELATED_SYMPTOMS
ResultStage(o) ==
    CASE o = "collect_risk_factors" -> RISK_FACTORS
      [] o = "collect_related_symptoms" -> RELATED_SYMPTOMS
      [] o = "check_red_flags" -> RED_FLAGS
Endpoint(o) ==
    CASE o = "collect_risk_factors" -> "suggest:demographic_risk_factors"
      [] o = "collect_related_symptoms" -> "suggest:symptoms"
      [] o = "check_red_flags" -> "suggest:red_flags"

\* C1: under every sequence of operations the stage never moves to an
\* earlier stage of the order NOT_STARTED < ... < COMPLETE (so no stage is
\* entered again after it was left).
C1_StageNeverMovesBack ==
    [][StageIndex(stage') >= StageIndex(stage)]_vars

\* C2: RED_FLAGS is entered only from RELATED_SYMPTOMS, which is entered only
\* from RISK_FACTORS, which is entered only from INITIAL_SYMPTOMS;
\* INTERVIEW_LOOP is entered only from RED_FLAGS; COMPLETE is entered only
\* from RED_FLAGS or INTERVIEW_LOOP; and no step leads from NOT_STARTED,
\* INITIAL_SYMPTOMS or RISK_FACTORS to RED_FLAGS, INTERVIEW_LOOP or COMPLETE.
C2_StagesEnteredInOrder ==
    [][stage' # stage =>
        /\ stage' = RISK_FACTORS => stage = INITIAL_SYMPTOMS
        /\ stage' = RELATED_SYMPTOMS => stage = RISK_FACTORS
        /\ stage' = RED_FLAGS => stage = RELATED_SYMPTOMS
        /\ stage' = INTERVIEW_LOOP => stage = RED_FLAGS
        /\ stage' = COMPLETE => stage \in {RED_FLAGS, INTERVIEW_LOOP}
        /\ stage \in {NOT_STARTED, INITIAL_SYMPTOMS, RISK_FACTORS}
              => stage' \notin {RED_FLAGS, INTERVIEW_LOOP, COMPLETE}]_vars

\* the loop was entered by get_next_question after the red flags
C2_Witness ==
    /\ op = "get_next_question"
    /\ stage = INTERVIEW_LOOP
    /\ called = "diagnosis"

\* C3: each collecting method called in its valid stage queries its endpoint
\* and moves the stage one stage on; called in any other stage it makes no
\* service call, returns an empty list and leaves stage, evidence, history
\* and the pending candidates unchanged.
C3_CollectGatedByStage ==
    [][op' \in CollectOps =>
        IF stage = ValidStage(op')
        THEN /\ called' = Endpoint(op')
             /\ stage' = ResultStage(op')
        ELSE /\ called' = NoCall
             /\ wire' = NoWire
             /\ ret' = ReturnList(<<>>)
             /\ UNCHANGED <<stage, evidence, history, pending_vars>>]_vars

\* collect_related_symptoms was refused on a session past RISK_FACTORS that
\* holds evidence and pending candidates
C3_Witness ==
    /\ op = "collect_related_symptoms"
    /\ called = NoCall
    /\ stage = RED_FLAGS
    /\ evidence # <<>>
    /\ pending_related_symptoms # <<>>

\* C4: when the suggestion request of a collecting method (called in its
\* valid stage) fails, the method returns an empty list, raises nothing,
\* moves the stage one stage on and leaves the evidence ledger unchanged.
C4_SuggestFailureAbsorbed ==
    [][op' \in CollectOps /\ wire'.status = "error" =>
        /\ ret' = ReturnList(<<>>)
        /\ raised' = NoError
        /\ stage = ValidStage(op')
        /\ stage' = ResultStage(op')
        /\ evidence' = evidence]_vars

\* the red-flag request failed on a session that holds evidence
C4_Witness ==
    /\ op = "check_red_flags"
    /\ wire.status = "error"
    /\ stage = RED_FLAGS
    /\ evidence # <<>>

\* C5: a failed diagnosis request in get_next_question is surfaced as an
\* error: the session is not moved to COMPLETE, is_complete is not set and
\* the conditions are not replaced.
C5_DiagnosisFailureSurfaced ==
    [][op' = "get_next_question" /\ wire'.status = "error" =>
        /\ raised' # NoError
        /\ stage' # COMPLETE
        /\ is_complete' = is_complete
        /\ conditions' = conditions]_vars

\* C6: a diagnosis response with a question and without a stop signal keeps
\* the session in INTERVIEW_LOOP with is_complete = false, whatever the number
\* of questions asked so far, and the session enters COMPLETE only in a
\* get_next_question step whose response from the service carried
\* should_stop = true.
C6_LoopEndsOnlyOnServiceStop ==
    [][/\ ( /\ op' = "get_next_question"
            /\ wire'.status = "ok"
            /\ ~Get(wire'.data, "should_stop", FALSE)
            /\ ~is_complete )
          => stage' = INTERVIEW_LOOP /\ ~is_complete'
       /\ (stage # COMPLETE /\ stage' = COMPLETE)
          => /\ op' = "get_next_question"
             /\ wire'.status = "ok"
             /\ Get(wire'.data, "should_stop", FALSE)]_vars

\* C7: a stop signal moves the session to COMPLETE, sets is_complete, clears
\* the current question and stores the conditions of the stop response; from
\* then on is_complete stays true and the stage stays COMPLETE.
C7_CompleteIsFinal ==
    [][/\ ( /\ op' = "get_next_question"
            /\ wire'.status = "ok"
            /\ Get(wire'.data, "should_stop", FALSE) )
          => /\ stage' = COMPLETE
             /\ is_complete'
             /\ current_question' = None
             /\ conditions' = Get(wire'.data, "conditions", <<>>)
       /\ is_complete => is_complete'
       /\ stage = COMPLETE => stage' = COMPLETE]_vars

\* C8 (as claimed): get_final_results called while the stage is not COMPLETE
\* fails with an IllegalStateError.
C8_FinalResultsRaises ==
    (op = "get_final_results" /\ stage # COMPLETE)
        => raised = "IllegalStateError"

\* C8: get_final_results never raises and changes no state; while
\* is_complete is false it returns an error dictionary naming the stage, and
\* once is_complete is true it returns the conditions, the evidence and
\* questions_asked as held, and one entry per history record, in order, with
\* the record's stage, question text, item name and response.
C8_FinalResults ==
    [][op' = "get_final_results" =>
        /\ raised' = NoError
        /\ UNCHANGED <<state_vars, pending_vars>>
        /\ ret'.kind = "dict"
        /\ IF ~is_complete
           THEN /\ DOMAIN ret'.value = {"error", "stage"}
                /\ ret'.value.stage = stage
           ELSE /\ "error" \notin DOMAIN ret'.value
                /\ ret'.value.conditions = conditions
                /\ ret'.value.evidence = evidence
                /\ ret'.value.questions_asked = questions_asked
                /\ Len(ret'.value.history) = Len(history)
                /\ \A i \in 1..Len(history) :
                       /\ ret'.value.history[i].stage = history[i].stage
                       /\ ret'.value.history[i].question
                              = history[i].question_text
                       /\ ret'.value.history[i].item = history[i].item_name
                       /\ ret'.value.history[i].response
                              = history[i].response]_vars

\* the results of a completed session that recorded an answer were returned
C8_Witness ==
    /\ op = "get_final_results"
    /\ is_complete
    /\ "conditions" \in DOMAIN ret.value
    /\ history # <<>>
    /\ questions_asked > 0

C10_StartRecordsInitialSymptoms ==
    [][( /\ op' = "start_interview"
         /\ stage = NOT_STARTED
         /\ evidence = <<>>
         /\ ~is_complete )
       => /\ stage' = INITIAL_SYMPTOMS
          /\ Len(evidence') = Len(args'.initial_symptoms)
          /\ \A i \in 1..Len(args'.initial_symptoms) :
                 evidence'[i] = [id |-> args'.initial_symptoms[i].id,
                                 choice_id |-> "present",
                                 source |-> "initial"]]_vars

\* a session started with two initial symptoms
C10_Witness ==
    /\ op = "start_interview"
    /\ stage = INITIAL_SYMPTOMS
    /\ Len(args.initial_symptoms) = 2
    /\ Len(evidence) = 2
    /\ evidence[1].id # evidence[2].id
    /\ questions_asked = 0
    /\ pending_risk_factors = <<>>

\* C11 (as claimed): answer_question called while a question is pending
\* appends exactly one evidence item {item_id, presence, predefined} and
\* increments the question counter by one.
C11_AnswerIncrementsCounter ==
    [][op' = "answer_question" /\ current_question # None =>
        /\ evidence' = Append(evidence,
               [id |-> args'.item_id, choice_id |-> args'.response,
                source |-> "predefined"])
        /\ questions_asked' = questions_asked + 1]_vars

\* C11: answer_question called while a question is pending appends exactly
\* one evidence item {item_id, presence, predefined} and one history record
\* and leaves the question counter unchanged; the counter is incremented by
\* one in every get_next_question call whose diagnosis result is not a stop.
C11_AnswerAppendsOneItem ==
    [][/\ op' = "answer_question" /\ current_question # None =>
           /\ evidence' = Append(evidence,
                  [id |-> args'.item_id, choice_id |-> args'.response,
                   source |-> "predefined"])
           /\ Len(history') = Len(history) + 1
           /\ questions_asked' = questions_asked
       /\ op' = "get_next_question" =>
           questions_asked' =
               IF /\ called' = "diagnosis"
                  /\ wire'.status = "ok"
                  /\ ~Get(wire'.data, "should_stop", FALSE)
               THEN questions_asked + 1
               ELSE questions_asked]_vars

\* a pending question was answered with "absent"
C11_Witness ==
    /\ op = "answer_question"
    /\ current_question # None
    /\ evidence # <<>>
    /\ evidence[Len(evidence)] =
           [id |-> "s_2", choice_id |-> "absent", source |-> "predefined"]
    /\ questions_asked = 1

\* the question types of the history records of the three add_*_response
SuggestedTypes == {"risk_factor", "related_symptom", "red_flag"}

IsPrefix(s, t) == Len(s) <= Len(t) /\ SubSeq(t, 1, Len(s)) = s

\* C13: the evidence ledger and the history are append-only: in every step
\* the ledger before is a prefix of the ledger after, and so is the history.
C13_AppendOnly ==
    [][IsPrefix(evidence, evidence') /\ IsPrefix(history, history')]_vars

\* a second start_interview extended a ledger that held an answer
C13_Witness ==
    /\ op = "start_interview"
    /\ Len(evidence) = 2
    /\ evidence[1].source = "suggest"
    /\ evidence[2].source = "initial"
    /\ Len(history) = 2

\* C14: whenever get_next_question returns None, is_complete is true and the
\* stage is COMPLETE.
C14_NoneOnlyWhenComplete ==
    (op = "get_next_question" /\ raised = NoError /\ ret = ReturnNone)
        => (is_complete /\ stage = COMPLETE)

----------------------------------------------------------------------------
(* Properties of the scoring, stated for ScoreSpec *)

\* the slot was scored and starts at or after now
ScoredFromNow == score # None /\ slot.datetime >= now

\* the time from now to the start of the slot, in ticks
Until == slot.datetime - now

Hours(h) == h * TicksPerHour

\* C15: the three weights sum to exactly 1 (10 tenths), each component of a
\* computed AppointmentScore lies in [0,1] (0..10 tenths), the total is the
\* weighted sum and lies in [0,1] (0..100 hundredths), for every urgency
\* level, specialty pair and slot time, slots before now included.
C15_ScoresInUnitInterval ==
    /\ weights.urgency_match + weights.specialist_match
           + weights.availability = 10
    /\ score # None =>
           /\ score.urgency_match_score \in 0..10
           /\ score.specialist_match_score \in 0..10
           /\ score.availability_score \in 0..10
           /\ score.total_score =
                  5 * score.urgency_match_score
                      + 3 * score.specialist_match_score
                      + 2 * score.availability_score
           /\ score.total_score \in 0..100

\* a slot that started before now was scored
C15_Witness ==
    /\ score # None
    /\ slot.datetime < now
    /\ score.urgency_match_score = 10
    /\ score.availability_score = 2

\* C16: for emergency_ambulance and emergency and a slot at or after now,
\* the urgency component is the claimed step table: emergency_ambulance 1.0
\* under 1 hour, 0.7 later the same day, 0.3 up to 2 days, else 0.1;
\* emergency 1.0 under 24 hours, 0.7 under 48 hours, 0.4 up to 7 days,
\* else 0.2.
C16_EmergencyUrgencyTable ==
    (ScoredFromNow /\ triage.triage_level \in {EMERGENCY_AMBULANCE, EMERGENCY})
        => score.urgency_match_score =
               IF triage.triage_level = EMERGENCY_AMBULANCE
               THEN IF Until < Hours(1) THEN 10
                    ELSE IF Until < Hours(24) THEN 7
                    ELSE IF Until <= Hours(48) THEN 3
                    ELSE 1
               ELSE IF Until < Hours(24) THEN 10
                    ELSE IF Until < Hours(48) THEN 7
                    ELSE IF Until <= Hours(7 * 24) THEN 4
                    ELSE 2

\* C17: for consultation_24, consultation and self_care and a slot at or
\* after now, the urgency component is the claimed step table:
\* consultation_24 1.0 under 24 hours, 0.8 under 48 hours, 0.5 up to 7 days,
\* else 0.3; consultation 1.0 up to 7 days, 0.8 up to 14 days, else 0.6;
\* self_care 1.0 up to 30 days, else 0.8.
C17_RoutineUrgencyTable ==
    (ScoredFromNow
         /\ triage.triage_level \in {CONSULTATION_24, CONSULTATION, SELF_CARE})
        => score.urgency_match_score =
               IF triage.triage_level = CONSULTATION_24
               THEN IF Until < Hours(24) THEN 10
                    ELSE IF Until < Hours(48) THEN 8
                    ELSE IF Until <= Hours(7 * 24) THEN 5
                    ELSE 3
               ELSE IF triage.triage_level = CONSULTATION
               THEN IF Until <= Hours(7 * 24) THEN 10
                    ELSE IF Until <= Hours(14 * 24) THEN 8
                    ELSE 6
               ELSE IF Until <= Hours(30 * 24) THEN 10
                    ELSE 8

\* C18 (as claimed): the specialist component is decided by the first
\* applicable rule in the order: equality ignoring case 1.0, substring
\* ignoring case 0.8, provider in Primary Care 0.7, otherwise 0.3.
C18_PartialBeforeFallback ==
    score # None =>
        score.specialist_match_score =
            LET r == lower(triage.recommended_specialist)
                p == lower(slot.provider.specialty)
            IN  IF r = p THEN 10
                ELSE IF In(r, p) \/ In(p, r) THEN 8
                ELSE IF slot.provider.specialty = PRIMARY_CARE THEN 7
                ELSE 3

\* C18: the specialist component is decided by the first applicable rule in
\* the order: equality ignoring case 1.0, provider in Primary Care 0.7,
\* substring ignoring case 0.8, otherwise 0.3.
C18_FallbackBeforePartial ==
    score # None =>
        score.specialist_match_score =
            LET r == lower(triage.recommended_specialist)
                p == lower(slot.provider.specialty)
            IN  IF r = p THEN 10
                ELSE IF slot.provider.specialty = PRIMARY_CARE THEN 7
                ELSE IF In(r, p) \/ In(p, r) THEN 8
                ELSE 3

\* a recommendation that is part of the name Primary Care scored 0.7
C18_Witness ==
    /\ score # None
    /\ triage.recommended_specialist = <<"P", "r", "i", "m", "a", "r", "y">>
    /\ slot.provider.specialty = PRIMARY_CARE
    /\ score.specialist_match_score = 7

\* C19 (as claimed): for the two emergency levels and a slot at or after
\* now, the availability component is 1.0 under 2 hours, 0.8 under 6 hours,
\* 0.5 under 24 hours and 0.2 otherwise.
C19_EmergencyAvailabilityByHours ==
    (ScoredFromNow /\ triage.triage_level \in {EMERGENCY_AMBULANCE, EMERGENCY})
        => score.availability_score =
               IF Until < Hours(2) THEN 10
               ELSE IF Until < Hours(6) THEN 8
               ELSE IF Until < Hours(24) THEN 5
               ELSE 2

\* C19: for the two emergency levels and a slot at or after now, the
\* availability component is 1.0 under 24 hours, 0.5 from 24 hours to under
\* 48 hours and 0.2 otherwise.
C19_EmergencyAvailabilityByDays ==
    (ScoredFromNow /\ triage.triage_level \in {EMERGENCY_AMBULANCE, EMERGENCY})
        => score.availability_score =
               IF Until < Hours(24) THEN 10
               ELSE IF Until < Hours(48) THEN 5
               ELSE 2

\* an emergency slot three hours away scored 1.0, one 30 hours away 0.5
C19_Witness ==
    /\ ScoredFromNow
    /\ triage.triage_level = EMERGENCY
    /\ \/ Until = Hours(3) /\ score.availability_score = 10
       \/ Until = Hours(30) /\ score.availability_score = 5

\* the availability component of the slot one tick later is not higher
NotBetterLater ==
    _calculate_availability_score(triage.triage_level, slot.datetime + 1, now)
        <= score.availability_score

\* C20 (as claimed): for the three non-emergency levels and a slot at or
\* after now, the availability component lies in [0.7, 1.0], is 1.0 for the
\* nearest slot and never increases as the slot moves into the future.
C20_RoutineAvailabilityAsClaimed ==
    (ScoredFromNow
         /\ triage.triage_level \in {CONSULTATION_24, CONSULTATION, SELF_CARE})
        => /\ score.availability_score \in 7..10
           /\ Until = 0 => score.availability_score = 10
           /\ NotBetterLater

\* C20: for the three non-emergency levels and a slot at or after now, the
\* availability component lies in [0.5, 1.0] and never increases as the slot
\* moves into the future; it is 1.0 for the nearest slots of consultation_24
\* (under 48 hours) and of consultation (under 8 days), and it is 0.8 for
\* every slot of self_care.
C20_RoutineAvailability ==
    (ScoredFromNow
         /\ triage.triage_level \in {CONSULTATION_24, CONSULTATION, SELF_CARE})
        => /\ score.availability_score \in 5..10
           /\ NotBetterLater
           /\ (triage.triage_level = CONSULTATION_24 /\ Until < Hours(48))
                  => score.availability_score = 10
           /\ (triage.triage_level = CONSULTATION /\ Until < Hours(8 * 24))
                  => score.availability_score = 10
           /\ triage.triage_level = SELF_CARE
                  => score.availability_score = 8

\* a consultation_24 slot four days away scored 0.5
C20_Witness ==
    /\ ScoredFromNow
    /\ triage.triage_level = CONSULTATION_24
    /\ Until = Hours(4 * 24)
    /\ score.availability_score = 5

\* C21: urgency emergency, recommended specialist "Cardiology", a slot of a
\* Cardiology provider starting at now + 30 minutes: urgency component 1.0,
\* specialist component 1.0, availability component 1.0, total score 1.0.
C21_EmergencyScenario ==
    (/\ score # None
     /\ triage.triage_level = EMERGENCY
     /\ triage.recommended_specialist = CARDIOLOGY
     /\ slot.provider.specialty = CARDIOLOGY
     /\ 2 * Until = Hours(1))
        => /\ score.urgency_match_score = 10
           /\ score.specialist_match_score = 10
           /\ score.availability_score = 10
           /\ score.total_score = 100

\* the emergency scenario was scored
C21_Witness ==
    /\ score # None
    /\ triage.triage_level = EMERGENCY
    /\ triage.recommended_specialist = CARDIOLOGY
    /\ slot.provider.specialty = CARDIOLOGY
    /\ 2 * Until = Hours(1)
    /\ score.total_score = 100

\* C22 (as claimed): urgency self_care, recommended specialist
\* "Dermatology", a slot of a Primary Care provider starting at now + 10
\* days: urgency component 1.0, specialist component 0.7, availability
\* component 1.0, total score 0.91.
C22_SelfCareScenarioAsClaimed ==
    (/\ score # None
     /\ triage.triage_level = SELF_CARE
     /\ triage.recommended_specialist = DERMATOLOGY
     /\ slot.provider.specialty = PRIMARY_CARE
     /\ Until = Hours(10 * 24))
        => /\ score.urgency_match_score = 10
           /\ score.specialist_match_score = 7
           /\ score.availability_score = 10
           /\ score.total_score = 91

\* C22: urgency self_care, recommended specialist "Dermatology", a slot of
\* a Primary Care provider starting at now + 10 days: urgency component
\* 1.0, specialist component 0.7, availability component 0.8, total score
\* 0.87.
C22_SelfCareScenario ==
    (/\ score # None
     /\ triage.triage_level = SELF_CARE
     /\ triage.recommended_specialist = DERMATOLOGY
     /\ slot.provider.specialty = PRIMARY_CARE
     /\ Until = Hours(10 * 24))
        => /\ score.urgency_match_score = 10
           /\ score.specialist_match_score = 7
           /\ score.availability_score = 8
           /\ score.total_score = 87

\* the self-care scenario was scored
C22_Witness ==
    /\ score # None
    /\ triage.triage_level = SELF_CARE
    /\ triage.recommended_specialist = DERMATOLOGY
    /\ slot.provider.specialty = PRIMARY_CARE
    /\ Until = Hours(10 * 24)
    /\ score.total_score = 87

----------------------------------------------------------------------------
(* Properties of the ranking, stated for RankSpec *)

\* the place of a slot in the list of candidate slots
Place(slt) ==
    CHOOSE i \in 1..Len(args.available_slots) :
        args.available_slots[i] = slt

\* C23: the output of match_appointments is sorted by total_score in
\* non-increasing order, and two returned candidates of equal total_score
\* are in the same relative order as in the input list.
C23_SortedAndStable ==
    op = "match_appointments" =>
        LET recs == ret.value
        IN  \A i, j \in 1..Len(recs) :
                i < j =>
                    /\ recs[i].total_score >= recs[j].total_score
                    /\ recs[i].total_score = recs[j].total_score
                           => Place(recs[i].slot) < Place(recs[j].slot)

\* two slots of equal score were returned in input order, ahead of a slot of
\* lower score that came first in the input
C23_Witness ==
    /\ op = "match_appointments"
    /\ Len(ret.value) = 3
    /\ LET recs == ret.value
       IN  /\ recs[1].total_score = recs[2].total_score
           /\ recs[2].total_score > recs[3].total_score
           /\ Place(recs[3].slot) = 1

----------------------------------------------------------------------------
(* Properties of the pipeline, stated for OptSpec *)

\* the names of the steps the run invoked, in order
StepNames == [i \in 1..Len(calls) |-> calls[i].step]

\* optimize ran
OptimizeRan == op = "optimize"

\* optimize ran and both the parse and the triage request succeeded
TriagedRun ==
    /\ OptimizeRan
    /\ calls[1].input.status = "ok"
    /\ Len(calls) >= 2
    /\ calls[2].input.status = "ok"

\* C25: a run of optimize whose requests succeed invokes, in this order and
\* once each: parse symptoms, triage, specialist recommendation, specialty
\* normalization, one slot query, rank, alternative-care lookup.
C25_StepsInOrder ==
    TriagedRun =>
        /\ Len(calls) = 7
        /\ SubSeq(StepNames, 1, 4) =
               <<"parse_symptoms", "run_triage", "recommend_specialist",
                 "_map_specialist_to_specialty">>
        /\ StepNames[5] \in {"get_urgent_slots", "generate_slots"}
        /\ SubSeq(StepNames, 6, 7) =
               <<"match_appointments", "get_alternative_options">>

\* C26: when the parse and the triage request both succeed for a non-blank
\* symptom text, optimize does not raise and returns a result with the
\* triage result, the specialist recommendation, the parsed symptoms, the
\* ranked appointments and the alternative-care options.
C26_SuccessfulRunReturns ==
    (TriagedRun /\ \E i \in 1..Len(args.patient.symptom_text) :
                       args.patient.symptom_text[i] # " ")
        => /\ raised = NoError
           /\ {"triage", "parsed_symptoms", "recommended_appointments",
               "alternative_options"} \subseteq DOMAIN ret.value
           /\ "recommended_specialist_name" \in DOMAIN ret.value.triage

\* C27: a run of optimize issues exactly one slot query: the urgent query
\* (at most 48 hours, the mapped specialty) when the triage level is
\* emergency or emergency_ambulance, the regular query over 14 days for the
\* other three levels.
C27_OneSlotQuery ==
    TriagedRun =>
        LET queries == {i \in 1..Len(calls) :
                           calls[i].step \in {"get_urgent_slots",
                                              "generate_slots"}}
            level == calls[2].input.data.triage_level
        IN  /\ Cardinality(queries) = 1
            /\ \A i \in queries :
                   IF level \in {EMERGENCY, EMERGENCY_AMBULANCE}
                   THEN /\ calls[i].step = "get_urgent_slots"
                        /\ calls[i].input.days_ahead * HoursPerDay <= 48
                   ELSE /\ calls[i].step = "generate_slots"
                        /\ calls[i].input.days_ahead = 14

\* C28: if the parse request fails, optimize raises the error and invokes
\* nothing after parse; if parse succeeds and the triage request fails,
\* optimize raises the error and invokes nothing after triage; in neither
\* case is a result returned.
C28_ParseAndTriageFailuresPropagate ==
    OptimizeRan =>
        /\ calls[1].input.status # "ok" =>
               /\ raised = RequestException
               /\ ret = ReturnNone
               /\ StepNames = <<"parse_symptoms">>
        /\ (calls[1].input.status = "ok" /\ calls[2].input.status # "ok") =>
               /\ raised = RequestException
               /\ ret = ReturnNone
               /\ StepNames = <<"parse_symptoms", "run_triage">>

\* the triage request failed after a parse that found two symptoms
C28_Witness ==
    /\ OptimizeRan
    /\ calls[1].input.status = "ok"
    /\ Len(calls[1].input.data.mentions) = 2
    /\ calls[2].input.status = "error"
    /\ raised = RequestException

\* C29: a failed specialist-recommendation request is raised to the caller;
\* recommend_specialist never returns a recommendation for a failed request.
C29_RecommendFailurePropagates ==
    (op = "recommend_specialist" /\ wire.status # "ok")
        => (raised = RequestException /\ ret = ReturnNone)

\* a call of _map_specialist_to_specialty returned
Normalized == op = "_map_specialist_to_specialty"

\* C30: _map_specialist_to_specialty never fails, returns the table's
\* category for a name that, compared ignoring case, is an entry of the
\* table, returns Primary Care for every other name, and always returns a
\* member of the specialty enumeration.
C30_NormalizationTotal ==
    Normalized =>
        /\ raised = NoError
        /\ ret.value.specialty \in AllSpecialtyTypes
        /\ ret.value.specialty =
               LET key == lower(args.specialist_name)
               IN  IF key \in DOMAIN mapping THEN mapping[key]
                   ELSE PRIMARY_CARE

\* a table entry written in capitals was found, or a name that is no entry
\* of the table fell back to Primary Care
C30_Witness ==
    /\ Normalized
    /\ \/ /\ args.specialist_name = <<"P", "E", "D", "I", "A", "T", "R", "I",
                                     "C", "I", "A", "N">>
          /\ ret.value.specialty = PEDIATRICS
       \/ /\ args.specialist_name = <<"I", "n", "t", "e", "r", "n", "i", "s",
                                     "t">>
          /\ ret.value.specialty = PRIMARY_CARE

----------------------------------------------------------------------------
(* Properties of the alternative-care lookup, stated for OptSpec *)

\* C31: the alternative-care options depend only on the urgency level:
\* Emergency Department exactly for emergency_ambulance and emergency,
\* Urgent Care exactly for emergency and consultation_24, Telemedicine for
\* every level except emergency_ambulance, Self-Care exactly for self_care;
\* the list is never empty and keeps that order.
C31_AlternativesByLevel ==
    op = "get_alternative_options" =>
        LET level == args.triage_result.triage_level
            offered(type) ==
                CASE type = "Emergency Department" ->
                         level \in {EMERGENCY_AMBULANCE, EMERGENCY}
                  [] type = "Urgent Care Center" ->
                         level \in {EMERGENCY, CONSULTATION_24}
                  [] type = "Telemedicine Visit" ->
                         level # EMERGENCY_AMBULANCE
                  [] type = "Self-Care & Monitoring" -> level = SELF_CARE
        IN  /\ ret.value =
                   SelectSeq(<<"Emergency Department", "Urgent Care Center",
                               "Telemedicine Visit",
                               "Self-Care & Monitoring">>, offered)
            /\ ret.value # <<>>

\* an ambulance-level emergency was offered the emergency department alone
C31_Witness ==
    /\ op = "get_alternative_options"
    /\ args.triage_result.triage_level = EMERGENCY_AMBULANCE
    /\ args.triage_result.recommended_specialist = PRIMARY_CARE
    /\ ret.value = <<"Emergency Department">>

----------------------------------------------------------------------------
(* Further properties of the pipeline, stated for OptSpec *)

\* C32: optimize rejects an empty or all-whitespace symptom text before any
\* external call: it requests neither parse nor triage nor slots and raises
\* an error to its caller.
C32_BlankTextRejected ==
    (/\ OptimizeRan
     /\ \A i \in 1..Len(args.patient.symptom_text) :
            args.patient.symptom_text[i] = " ")
        => /\ calls = <<>>
           /\ raised # NoError
           /\ ret = ReturnNone

----------------------------------------------------------------------------
(* Further properties of the scoring, stated for ScoreSpec *)

\* C33: the score of a slot does not depend on when it is computed: scoring
\* the same urgency, specialist and slot at any later reading of the clock,
\* up to a day later, gives the same components and the same total.
C33_ScoreIndependentOfClock ==
    score # None =>
        \A later \in 1..TicksPerDay :
            Scored(triage, slot, now + later) = score

----------------------------------------------------------------------------
(* Properties of the interview page, stated for AppSpec *)

\* C34: when check_red_flags returned candidates, the answer to every one of
\* them is in the ledger before the first diagnosis request of the session.
C34_RedFlagsBeforeDiagnosis ==
    (stage \in {INTERVIEW_LOOP, COMPLETE} /\ pending_red_flags # <<>>)
        => \A i \in 1..Len(pending_red_flags) :
               \E j \in 1..Len(history) :
                   /\ history[j].question_type = "red_flag"
                   /\ history[j].item_id = pending_red_flags[i].id

----------------------------------------------------------------------------
(* Further properties of the interview, stated for Spec *)

\* C35: in every reachable state is_complete is true exactly when the stage
\* is COMPLETE, and there is no current question when the stage is COMPLETE.
C35_CompleteIffStageComplete ==
    /\ is_complete <=> stage = COMPLETE
    /\ stage = COMPLETE => current_question = None

\* C36: once is_complete is true, no operation changes the evidence ledger,
\* the history, the condition list or questions_asked.
C36_ResultsFrozen ==
    [][is_complete =>
           UNCHANGED <<evidence, history, conditions, questions_asked>>]_vars

----------------------------------------------------------------------------
(* Properties of past and of later slots, stated for ScoreSpec *)

\* C37: a slot that starts before now gets neither a higher urgency component
\* nor a higher total score than the same slot starting at or after now.
C37_PastSlotNotPreferred ==
    (score # None /\ slot.datetime < now) =>
        \A start \in now..(now + MaxDays * TicksPerDay) :
            LET other == Scored(triage, [slot EXCEPT !.datetime = start], now)
            IN  /\ score.urgency_match_score <= other.urgency_match_score
                /\ score.total_score <= other.total_score

\* the score of the same slot starting one tick later; its specialist
\* component is that of the slot, which _calculate_specialist_match computes
\* from the two specialties alone
OneTickLater ==
    LET urgency_score ==
            _calculate_urgency_match(triage.triage_level, slot.datetime + 1,
                                     now)
        availability_score ==
            _calculate_availability_score(triage.triage_level,
                                          slot.datetime + 1, now)
    IN  AppointmentScore([slot EXCEPT !.datetime = @ + 1],
            urgency_score * weights.urgency_match
                + score.specialist_match_score * weights.specialist_match
                + availability_score * weights.availability,
            urgency_score, score.specialist_match_score, availability_score)

\* C38: of two slots at or after now that differ only in start time, the
\* earlier one has an urgency component, an availability component and a
\* total score at least as high as the later one; checked for every slot
\* against the slot one tick later, which gives every pair by transitivity.
C38_SoonerNeverWorse ==
    ScoredFromNow =>
        /\ score.urgency_match_score >= OneTickLater.urgency_match_score
        /\ score.availability_score >= OneTickLater.availability_score
        /\ score.total_score >= OneTickLater.total_score

\* an emergency slot one hour away scored urgency 1.0, the slot half an hour
\* after it 0.7
C38_Witness ==
    /\ ScoredFromNow
    /\ triage.triage_level = EMERGENCY
    /\ Until = Hours(1)
    /\ score.urgency_match_score = 10
    /\ OneTickLater.urgency_match_score = 7
    /\ score.total_score > OneTickLater.total_score

----------------------------------------------------------------------------
(* Further properties of the normalization, stated for OptSpec *)

\* C39: normalizing the name of one of the seven specialty categories,
\* written in any letter case, returns that category.
C39_IdentityOnCategories ==
    Normalized =>
        \A category \in AllSpecialtyTypes :
            lower(args.specialist_name) = lower(category)
                => ret.value.specialty = category

----------------------------------------------------------------------------
(* Termination of the session driven in protocol order, stated for         *)
(* ProtocolSpec *)

\* C40: under weak fairness of the caller's steps, the session driven in
\* protocol order eventually reaches the stage COMPLETE with is_complete
\* true.
C40_EventuallyComplete == <>(stage = COMPLETE /\ is_complete)

\* the session completed after a question was asked and answered
C40_Witness ==
    /\ stage = COMPLETE
    /\ is_complete
    /\ op = "get_next_question"
    /\ questions_asked = 1
    /\ \E i \in 1..Len(evidence) : evidence[i].source = "predefined"

====
